---- MODULE Spec2Model ----
(***************************************************************************)
(* Model of server/api/scripts/ml-pattern-detector.py: the batch-deshield  *)
(* pattern detector (DBSCAN clustering by amount, multi-factor scoring,    *)
(* shield matching, upsert of the detected patterns).                      *)
(*                                                                         *)
(* Numbers.  TLC's integers are 32 bit wide, and one ZEC is 10^8 zatoshi,  *)
(* so every amount_zat of the model is counted in units of 10^6 zatoshi    *)
(* (0.01 ZEC): an amount a of the model is the amount_zat a * 10^6 of the  *)
(* program, one ZEC is 100, and the default tolerance_zat of fetch_shields *)
(* (1000000) is 1.  Times are seconds.  The program compares floats; the   *)
(* model compares the exact rationals, written without division.           *)
(***************************************************************************)
EXTENDS Integers, Sequences, FiniteSets, TLC

VARIABLES
    flows,      \* the deshield rows of shielded_flows, in ORDER BY block_time DESC
    cfg,        \* the run options [min_cluster_size, min_amount_zat, dry_run]
    store,      \* the committed rows of detected_patterns, in insertion order
    pc,         \* per run: "idle", "start", "loop", "done" (returned), "aborted" (raised)
    conn,       \* per run: the connection's transaction, "ok" or "failed_tx"
    deshields,  \* per run: the list fetch_deshields returned
    clusters,   \* per run: the mapping cluster_by_amount returned, in iteration order
    idx,        \* per run: the position of the for loop over clusters.items()
    patterns,   \* per run: the list patterns (the returned value once pc is "done")
    scores,     \* per run, history: the score of each cluster the loop has passed
    attempts,   \* per run, history: the store_pattern calls, [pattern, ok]
    queries,    \* per run, history: the number of fetch_shields queries issued
    clustered,  \* per run, history: whether cluster_by_amount was called
    latest,     \* SpecStore, history: id set -> the last pattern committed for it
    nUpserts,   \* SpecStore: the number of store_pattern calls made
    scorePc,    \* SpecScore: "in" before score_cluster is applied, "out" after
    scoreIn,    \* SpecScore: the arguments [cluster, matching_shield]
    scoreOut    \* SpecScore: the value score_cluster returned

runVars == <<pc, conn, deshields, clusters, idx, patterns, scores, attempts, queries, clustered>>
pipeVars == <<flows, cfg, runVars>>
storeVars == <<latest, nUpserts>>
scoreVars == <<scorePc, scoreIn, scoreOut>>
vars == <<store, pipeVars, storeVars, scoreVars>>

----------------------------------------------------------------------------
(* Arithmetic helpers *)

Min2(a, b) == IF a <= b THEN a ELSE b
Max2(a, b) == IF a >= b THEN a ELSE b
AbsDiff(a, b) == IF a >= b THEN a - b ELSE b - a

RECURSIVE SumSeq(_)
SumSeq(s) == IF s = <<>> THEN 0 ELSE Head(s) + SumSeq(Tail(s))

RECURSIVE MinSeq(_)
MinSeq(s) == IF Len(s) = 1 THEN s[1] ELSE Min2(s[1], MinSeq(Tail(s)))

RECURSIVE MaxSeq(_)
MaxSeq(s) == IF Len(s) = 1 THEN s[1] ELSE Max2(s[1], MaxSeq(Tail(s)))

\* a/c < d/b for naturals a, d and positive c, b, by comparing the continued
\* fractions: no product is formed, so nothing overflows.
RECURSIVE FracLess(_, _, _, _)
FracLess(a, c, d, b) ==
    LET q1 == a \div c
        q2 == d \div b
        r1 == a % c
        r2 == d % b
    IN  IF q1 # q2 THEN q1 < q2
        ELSE IF r2 = 0 THEN FALSE
        ELSE IF r1 = 0 THEN TRUE
        ELSE FracLess(b, r2, c, r1)

Amounts(cluster) == [i \in 1..Len(cluster) |-> cluster[i].amount_zat]
Times(cluster) == [i \in 1..Len(cluster) |-> cluster[i].block_time]

\* len(amounts)^2 * np.std(amounts)^2 = n * sum(a^2) - sum(a)^2, written as the
\* sum of the squared pairwise differences (small when the amounts are close).
RECURSIVE SqDiffs(_)
SqDiffs(am) ==
    IF Len(am) <= 1 THEN 0
    ELSE SumSeq([j \in 1..(Len(am) - 1) |-> (am[1] - am[j + 1]) * (am[1] - am[j + 1])])
         + SqDiffs(Tail(am))

\* cv < 1 / k, where cv = (std / avg) if avg > 0 else 0 and kk = k * k:
\* std / avg = sqrt(SqDiffs) / sum, so cv < 1/k iff SqDiffs / sum < sum / kk.
CvBelow(am, kk) ==
    LET total == SumSeq(am)
    IN  IF total > 0 THEN FracLess(SqDiffs(am), total, total, kk) ELSE TRUE

\* amount_zec >= den and amount_zec % den < 1 / tolInv, den in ZEC, where
\* amount_zec = np.mean(amounts) / 1e8 = sum / (100 * n) in the model's units.
RoundTo(am, den, tolInv) ==
    LET total == SumSeq(am)
        m     == 100 * den * Len(am)
    IN  /\ total >= m
        /\ (tolInv \div 100) * (total % m) < Len(am)

----------------------------------------------------------------------------
(* score_cluster *)

SizeScore(size) ==
    IF size >= 12 THEN 30
    ELSE IF size >= 8 THEN 22
    ELSE IF size >= 5 THEN 15
    ELSE 10

UniformityScore(am) ==
    IF CvBelow(am, 100000000) THEN 15
    ELSE IF CvBelow(am, 1000000) THEN 10
    ELSE IF CvBelow(am, 10000) THEN 5
    ELSE 0

RoundScoreNo1000(am, uniformity_score) ==
    IF RoundTo(am, 500, 100) THEN 20
    ELSE IF RoundTo(am, 100, 100) THEN 15
    ELSE IF RoundTo(am, 50, 100) THEN 12
    ELSE IF RoundTo(am, 10, 100) THEN 10
    ELSE IF RoundTo(am, 1, 1000) THEN 5
    ELSE IF uniformity_score >= 10 THEN 8
    ELSE 0

RoundScore(am, uniformity_score) ==
    IF RoundTo(am, 1000, 100) THEN 20
    ELSE IF RoundTo(am, 500, 100) THEN 18
    ELSE IF RoundTo(am, 100, 100) THEN 15
    ELSE IF RoundTo(am, 50, 100) THEN 12
    ELSE IF RoundTo(am, 10, 100) THEN 10
    ELSE IF RoundTo(am, 1, 1000) THEN 5
    ELSE IF uniformity_score >= 10 THEN 8
    ELSE 0

\* time_span_hours = (last_time - first_time) / 3600 against 6, 24, 72, 168
TimeScore(tm) ==
    LET span == MaxSeq(tm) - MinSeq(tm)
    IN  IF span < 6 * 3600 THEN 12
        ELSE IF span < 24 * 3600 THEN 10
        ELSE IF span < 72 * 3600 THEN 6
        ELSE IF span < 168 * 3600 THEN 3
        ELSE 0

\* diff_pct = abs(total - shield) / shield * 100 if shield > 0 else 100, and
\* diff_pct < 100 / inv iff abs(total - shield) / shield < 1 / inv.
DiffPctBelow(total, shield_amount, inv) ==
    IF shield_amount > 0
    THEN FracLess(AbsDiff(total, shield_amount), shield_amount, 1, inv)
    ELSE FALSE

\* matching_shield is <<>> (None) or <<shield>>
MatchScore(am, matching_shield) ==
    IF matching_shield = <<>> THEN 0
    ELSE LET total == SumSeq(am)
             sa    == matching_shield[1].amount_zat
         IN  IF DiffPctBelow(total, sa, 10000) THEN 25
             ELSE IF DiffPctBelow(total, sa, 1000) THEN 22
             ELSE IF DiffPctBelow(total, sa, 100) THEN 18
             ELSE IF DiffPctBelow(total, sa, 20) THEN 12
             ELSE 5

CapScoreNone(raw) == raw

CapScore(raw) == Min2(raw, 100)

WarningLevel(score) ==
    IF score >= 70 THEN "HIGH"
    ELSE IF score >= 50 THEN "MEDIUM"
    ELSE "LOW"

score_cluster(cluster, matching_shield) ==
    LET am  == Amounts(cluster)
        sz  == SizeScore(Len(cluster))
        un  == UniformityScore(am)
        rn  == RoundScore(am, un)
        ti  == TimeScore(Times(cluster))
        ma  == MatchScore(am, matching_shield)
        sc  == CapScore(sz + un + rn + ti + ma)
    IN  [score         |-> sc,
         warning_level |-> WarningLevel(sc),
         breakdown     |-> [cluster_size    |-> sz,
                            uniformity      |-> un,
                            round_number    |-> rn,
                            is_round        |-> rn >= 10,
                            time_clustering |-> ti,
                            matching_shield |-> ma,
                            found           |-> matching_shield # <<>>]]

----------------------------------------------------------------------------
(* generate_pattern_hash, build_pattern, store_pattern *)

\* sorted(txids): insertion of each id into the sorted rest
RECURSIVE SortedIds(_)
SortedIds(ids) ==
    IF ids = <<>> THEN <<>>
    ELSE LET rest == SortedIds(Tail(ids))
             lo   == SelectSeq(rest, LAMBDA x : x < Head(ids))
             hi   == SelectSeq(rest, LAMBDA x : x >= Head(ids))
         IN  lo \o <<Head(ids)>> \o hi

HashUnsorted(txids) == txids

\* sha256 of the ids joined by ',': one digest per joined string, so the
\* joined string (the sorted id list) stands for the digest
generate_pattern_hash(txids) == SortedIds(txids)

build_pattern(cluster, score_result, matching_shield) ==
    LET am == Amounts(cluster)
        tm == Times(cluster)
    IN  [pattern_type      |-> "BATCH_DESHIELD_ML",
         batch_count       |-> Len(cluster),
         per_tx_amount_zat |-> SumSeq(am) \div Len(cluster),
         total_amount_zat  |-> SumSeq(am),
         txids             |-> [i \in 1..Len(cluster) |-> cluster[i].txid],
         times             |-> tm,
         first_time        |-> MinSeq(tm),
         last_time         |-> MaxSeq(tm),
         time_span_secs    |-> MaxSeq(tm) - MinSeq(tm),
         score             |-> score_result.score,
         warning_level     |-> score_result.warning_level,
         breakdown         |-> score_result.breakdown,
         shield_txids      |-> [i \in 1..Len(matching_shield) |-> matching_shield[i].txid],
         matching_shield   |-> matching_shield]

\* INTERVAL '90 days', in seconds
ExpirySecs == 7776000

\* the VALUES tuple of the INSERT, evaluated at NOW() = now; metadata is
\* json.dumps(pattern); the statement gives updated_at no value (<<>>: the
\* column's default)
PatternRow(pattern, now) ==
    [pattern_type      |-> pattern.pattern_type,
     pattern_hash      |-> generate_pattern_hash(pattern.txids),
     score             |-> pattern.score,
     warning_level     |-> pattern.warning_level,
     shield_txids      |-> pattern.shield_txids,
     deshield_txids    |-> pattern.txids,
     total_amount_zat  |-> pattern.total_amount_zat,
     per_tx_amount_zat |-> pattern.per_tx_amount_zat,
     batch_count       |-> pattern.batch_count,
     first_tx_time     |-> pattern.first_time,
     last_tx_time      |-> pattern.last_time,
     time_span_secs    |-> pattern.time_span_secs,
     metadata          |-> pattern,
     updated_at        |-> <<>>,
     expires_at        |-> now + ExpirySecs]

UpsertInsertOnly(st, row, now) == Append(st, row)

UpsertAllColumns(st, row, now) ==
    IF \E k \in 1..Len(st) : st[k].pattern_hash = row.pattern_hash
    THEN [k \in 1..Len(st) |->
            IF st[k].pattern_hash = row.pattern_hash
            THEN [row EXCEPT !.updated_at = <<now>>]
            ELSE st[k]]
    ELSE Append(st, row)

\* INSERT ... ON CONFLICT (pattern_hash) DO UPDATE SET score, warning_level,
\* metadata, updated_at = NOW(), expires_at = NOW() + INTERVAL '90 days'
Upsert(st, row, now) ==
    IF \E k \in 1..Len(st) : st[k].pattern_hash = row.pattern_hash
    THEN [k \in 1..Len(st) |->
            IF st[k].pattern_hash = row.pattern_hash
            THEN [st[k] EXCEPT !.score = row.score,
                               !.warning_level = row.warning_level,
                               !.metadata = row.metadata,
                               !.updated_at = <<now>>,
                               !.expires_at = now + ExpirySecs]
            ELSE st[k]]
    ELSE Append(st, row)

store_pattern_no_rollback(st, pattern, dry_run, fails, now) ==
    IF dry_run THEN [store |-> st, ok |-> TRUE, conn |-> "ok"]
    ELSE IF fails THEN [store |-> st, ok |-> FALSE, conn |-> "failed_tx"]
    ELSE [store |-> Upsert(st, PatternRow(pattern, now), now), ok |-> TRUE, conn |-> "ok"]

\* fails: the execute or the commit raises; the except branch rolls the
\* transaction back, which leaves the committed rows and a usable connection
store_pattern(st, pattern, dry_run, fails, now) ==
    IF dry_run THEN [store |-> st, ok |-> TRUE, conn |-> "ok"]
    ELSE IF fails THEN [store |-> st, ok |-> FALSE, conn |-> "ok"]
    ELSE [store |-> Upsert(st, PatternRow(pattern, now), now), ok |-> TRUE, conn |-> "ok"]

----------------------------------------------------------------------------
(* cluster_by_amount *)

\* 10^eps for the default eps = 0.0001 is 1.00023...: EpsNum / EpsDen
EpsNum == 100023
EpsDen == 100000

\* abs(log10(a + 1) - log10(b + 1)) <= eps for amounts a, b >= 0 of the program,
\* that is (hi + 1) / (lo + 1) <= 10^eps.  For the model's amounts (multiples
\* of 10^6 zatoshi) the + 1 decides nothing: the test is hi / lo <= 10^eps,
\* and 0 is within eps of 0 only.
WithinEps(a, b) == Max2(a, b) * EpsDen <= Min2(a, b) * EpsNum

\* DBSCAN(eps, min_samples, metric='euclidean').fit(log_amounts).labels_
Neighbours(am, i) == { j \in 1..Len(am) : WithinEps(am[i], am[j]) }

IsCore(am, min_samples, i) == Cardinality(Neighbours(am, i)) >= min_samples

\* the points the expansion from a core sample labels: the unlabelled points
\* reached through core samples
RECURSIVE Expand(_, _, _, _)
Expand(am, min_samples, labels, reached) ==
    LET more == { v \in 1..Len(am) :
                    /\ labels[v] = -1
                    /\ v \notin reached
                    /\ \E u \in reached : IsCore(am, min_samples, u) /\ v \in Neighbours(am, u) }
    IN  IF more = {} THEN reached
        ELSE Expand(am, min_samples, labels, reached \cup more)

RECURSIVE DbscanFrom(_, _, _, _, _)
DbscanFrom(am, min_samples, i, label_num, labels) ==
    IF i > Len(am) THEN labels
    ELSE IF labels[i] # -1 \/ ~IsCore(am, min_samples, i)
    THEN DbscanFrom(am, min_samples, i + 1, label_num, labels)
    ELSE LET reached == Expand(am, min_samples, labels, {i})
         IN  DbscanFrom(am, min_samples, i + 1, label_num + 1,
                        [v \in 1..Len(am) |-> IF v \in reached THEN label_num ELSE labels[v]])

DbscanLabels(am, min_samples) ==
    DbscanFrom(am, min_samples, 1, 0, [i \in 1..Len(am) |-> -1])

\* the loop over enumerate(clustering.labels_): a dict keeps its keys in the
\* order of their first insertion
RECURSIVE GroupByLabel(_, _, _, _)
GroupByLabel(txs, labels, i, acc) ==
    IF i > Len(txs) THEN acc
    ELSE IF labels[i] = -1 THEN GroupByLabel(txs, labels, i + 1, acc)
    ELSE IF \E k \in 1..Len(acc) : acc[k].label = labels[i]
    THEN GroupByLabel(txs, labels, i + 1,
            [k \in 1..Len(acc) |->
                IF acc[k].label = labels[i]
                THEN [acc[k] EXCEPT !.txs = Append(@, txs[i])]
                ELSE acc[k]])
    ELSE GroupByLabel(txs, labels, i + 1, Append(acc, [label |-> labels[i], txs |-> <<txs[i]>>]))

cluster_by_amount(txs, min_samples) ==
    IF Len(txs) < min_samples THEN <<>>
    ELSE GroupByLabel(txs, DbscanLabels(Amounts(txs), min_samples), 1, <<>>)

----------------------------------------------------------------------------
(* fetch_deshields, fetch_shields *)

\* WHERE amount_zat >= min_amount_zat, in the table's ORDER BY block_time DESC
fetch_deshields(table, min_amount_zat) ==
    SelectSeq(table, LAMBDA tx : tx.amount_zat >= min_amount_zat)

ToleranceZat == 1
LookbackSecs == 7776000

\* rows the shield table may hold when a run asks for total_amount_zat
ShieldRows(total_amount_zat, before_time) ==
    { [txid |-> "s1", block_time |-> before_time - 864000, amount_zat |-> total_amount_zat],
      [txid |-> "s2", block_time |-> before_time - 864000,
       amount_zat |-> total_amount_zat + ToleranceZat],
      [txid |-> "s3", block_time |-> before_time - 864000,
       amount_zat |-> total_amount_zat + ToleranceZat + 1],
      [txid |-> "s4", block_time |-> before_time, amount_zat |-> total_amount_zat] }

\* what matching_shields[0] if matching_shields else None can be: no row, or a
\* row the WHERE clause selects (the table's other rows decide which is first)
fetch_shields(total_amount_zat, before_time) ==
    {<<>>} \cup
    { <<s>> : s \in { x \in ShieldRows(total_amount_zat, before_time) :
                        /\ x.amount_zat >= total_amount_zat - ToleranceZat
                        /\ x.amount_zat <= total_amount_zat + ToleranceZat
                        /\ x.block_time < before_time
                        /\ x.block_time > before_time - LookbackSecs } }

----------------------------------------------------------------------------
(* detect_patterns *)

Runs == {1, 2}

\* patterns.sort(key=score, reverse=True): stable, equal scores keep their order
InsertByScoreBeforeTies(sorted, p) ==
    LET ahead  == SelectSeq(sorted, LAMBDA q : q.score > p.score)
        behind == SelectSeq(sorted, LAMBDA q : q.score <= p.score)
    IN  ahead \o <<p>> \o behind

InsertByScore(sorted, p) ==
    LET ahead  == SelectSeq(sorted, LAMBDA q : q.score >= p.score)
        behind == SelectSeq(sorted, LAMBDA q : q.score < p.score)
    IN  ahead \o <<p>> \o behind

RECURSIVE SortFrom(_, _)
SortFrom(ps, acc) ==
    IF ps = <<>> THEN acc ELSE SortFrom(Tail(ps), InsertByScore(acc, Head(ps)))

SortByScore(ps) == SortFrom(ps, <<>>)

TooWeakNever(score) == FALSE

\* line 467: skip low-quality patterns
TooWeak(score) == score < 35

ShouldStoreNever(dry_run) == FALSE

\* line 475: if not dry_run
ShouldStore(dry_run) == ~dry_run

\* lines 432-449: fetch the candidates, return [] when there are too few,
\* cluster them otherwise
Begin(r) ==
    /\ pc[r] = "start"
    /\ LET ds == fetch_deshields(flows, cfg.min_amount_zat)
       IN  /\ deshields' = [deshields EXCEPT ![r] = ds]
           /\ IF Len(ds) < cfg.min_cluster_size
              THEN /\ pc' = [pc EXCEPT ![r] = "done"]
                   /\ UNCHANGED <<clusters, clustered>>
              ELSE /\ pc' = [pc EXCEPT ![r] = "loop"]
                   /\ clusters' = [clusters EXCEPT ![r] = cluster_by_amount(ds, cfg.min_cluster_size)]
                   /\ clustered' = [clustered EXCEPT ![r] = TRUE]
    /\ UNCHANGED <<flows, cfg, store, conn, idx, patterns, scores, attempts, queries>>
    /\ UNCHANGED <<storeVars, scoreVars>>

\* line 460 raises (the query fails, or the transaction is in the failed
\* state): the exception leaves detect_patterns through the finally
FetchShieldsRaises(r) ==
    /\ pc[r] = "loop"
    /\ idx[r] <= Len(clusters[r])
    /\ Len(clusters[r][idx[r]].txs) >= cfg.min_cluster_size
    /\ pc' = [pc EXCEPT ![r] = "aborted"]
    /\ queries' = [queries EXCEPT ![r] = @ + 1]
    /\ UNCHANGED <<flows, cfg, store, conn, deshields, clusters, idx, patterns, scores, attempts,
                   clustered>>
    /\ UNCHANGED <<storeVars, scoreVars>>

\* NOW() of a run's statement: one second per store_pattern call made so far
Now == 1 + SumSeq([r \in Runs |-> Len(attempts[r])])

\* lines 451-476: one iteration of the loop over clusters.items()
ProcessCluster(r) ==
    /\ pc[r] = "loop"
    /\ idx[r] <= Len(clusters[r])
    /\ LET cluster == clusters[r][idx[r]].txs
       IN  IF Len(cluster) < cfg.min_cluster_size
           THEN /\ scores' = [scores EXCEPT ![r] = Append(@, -1)]
                /\ UNCHANGED <<store, conn, patterns, attempts, queries>>
           ELSE /\ conn[r] = "ok"
                /\ \E matching_shield \in fetch_shields(SumSeq(Amounts(cluster)),
                                                        MinSeq(Times(cluster))),
                      fails \in BOOLEAN :
                     LET score_result == score_cluster(cluster, matching_shield)
                         pattern == build_pattern(cluster, score_result, matching_shield)
                         stored  == store_pattern(store, pattern, FALSE, fails, Now)
                     IN  /\ queries' = [queries EXCEPT ![r] = @ + 1]
                         /\ scores' = [scores EXCEPT ![r] = Append(@, score_result.score)]
                         /\ IF TooWeak(score_result.score)
                            THEN UNCHANGED <<store, conn, patterns, attempts>>
                            ELSE /\ patterns' = [patterns EXCEPT ![r] = Append(@, pattern)]
                                 /\ IF ~ShouldStore(cfg.dry_run)
                                    THEN UNCHANGED <<store, conn, attempts>>
                                    ELSE /\ store' = stored.store
                                         /\ conn' = [conn EXCEPT ![r] = stored.conn]
                                         /\ attempts' = [attempts EXCEPT ![r] =
                                                Append(@, [pattern |-> pattern, ok |-> stored.ok])]
    /\ idx' = [idx EXCEPT ![r] = @ + 1]
    /\ UNCHANGED <<flows, cfg, pc, deshields, clusters, clustered>>
    /\ UNCHANGED <<storeVars, scoreVars>>

\* lines 478-484: sort the collected patterns and return them
Finish(r) ==
    /\ pc[r] = "loop"
    /\ idx[r] > Len(clusters[r])
    /\ patterns' = [patterns EXCEPT ![r] = SortByScore(@)]
    /\ pc' = [pc EXCEPT ![r] = "done"]
    /\ UNCHANGED <<flows, cfg, store, conn, deshields, clusters, idx, scores, attempts, queries,
                   clustered>>
    /\ UNCHANGED <<storeVars, scoreVars>>

detect_patterns(r) ==
    \/ Begin(r)
    \/ FetchShieldsRaises(r)
    \/ ProcessCluster(r)
    \/ Finish(r)

----------------------------------------------------------------------------
(* Spec: one run of detect_patterns; SpecOverlap: two runs at once *)

MaxTx == 4

FlowAmounts == {0, 10000, 10002, 10004}
LateCounts == {0, 1}

\* the tables a run can find: MaxTx deshields, newest first (the first late
\* ones 200 hours after the others)
FlowTables ==
    { [i \in 1..MaxTx |-> [txid |-> i, block_time |-> IF i <= late THEN 720000 ELSE 0,
                           amount_zat |-> am[i]]] :
        late \in LateCounts, am \in [1..MaxTx -> FlowAmounts] }

Configs == [min_cluster_size : {2, 3}, min_amount_zat : {0, 100}, dry_run : BOOLEAN]

IdleStore == latest = <<>> /\ nUpserts = 0
IdleScore == scorePc = "idle" /\ scoreIn = <<>> /\ scoreOut = <<>>

InitRuns(started) ==
    /\ store = <<>>
    /\ pc = [r \in Runs |-> IF r \in started THEN "start" ELSE "idle"]
    /\ conn = [r \in Runs |-> "ok"]
    /\ deshields = [r \in Runs |-> <<>>]
    /\ clusters = [r \in Runs |-> <<>>]
    /\ idx = [r \in Runs |-> 1]
    /\ patterns = [r \in Runs |-> <<>>]
    /\ scores = [r \in Runs |-> <<>>]
    /\ attempts = [r \in Runs |-> <<>>]
    /\ queries = [r \in Runs |-> 0]
    /\ clustered = [r \in Runs |-> FALSE]

IdlePipeline ==
    /\ flows = <<>>
    /\ cfg = [min_cluster_size |-> 3, min_amount_zat |-> 100, dry_run |-> FALSE]
    /\ InitRuns({})

Init ==
    /\ flows \in FlowTables
    /\ cfg \in Configs
    /\ InitRuns({1})
    /\ IdleStore
    /\ IdleScore

Next == \E r \in Runs : detect_patterns(r)

Spec == Init /\ [][Next]_vars

\* the same table and options read by two runs that overlap in time
FlowTablesOverlap ==
    { t \in FlowTables :
        \A i \in 1..MaxTx : t[i].amount_zat \in {10000, 10004} /\ t[i].block_time = 0 }

InitOverlap ==
    /\ flows \in FlowTablesOverlap
    /\ cfg = [min_cluster_size |-> 2, min_amount_zat |-> 100, dry_run |-> FALSE]
    /\ InitRuns(Runs)
    /\ IdleStore
    /\ IdleScore

SpecOverlap == InitOverlap /\ [][Next]_vars

----------------------------------------------------------------------------
(* SpecStore: a sequence of store_pattern calls on bounded patterns *)

MaxUpserts == 3

StoreIds == {1, 2, 3}

\* the id lists of the upserted patterns: both orders of every set of two ids
StoreTxids ==
    { s \in [1..2 -> StoreIds] : s[1] # s[2] }

ClusterOf(ids) ==
    [i \in 1..Len(ids) |-> [txid |-> ids[i], block_time |-> 0, amount_zat |-> 10000]]

\* the patterns detect_patterns builds for these clusters, one per shield match
StorePatterns ==
    { build_pattern(ClusterOf(ids), score_cluster(ClusterOf(ids), ms), ms) :
        ids \in StoreTxids, ms \in fetch_shields(20000, 0) }

IdSet(ids) == { ids[i] : i \in 1..Len(ids) }

InitStore ==
    /\ IdlePipeline
    /\ IdleScore
    /\ latest = [X \in SUBSET StoreIds |-> <<>>]
    /\ nUpserts = 0

StorePattern ==
    /\ nUpserts < MaxUpserts
    /\ \E pattern \in StorePatterns, dry_run \in BOOLEAN, fails \in BOOLEAN :
         LET stored == store_pattern(store, pattern, dry_run, fails, nUpserts + 1)
         IN  /\ store' = stored.store
             /\ latest' = IF ~dry_run /\ stored.ok
                          THEN [latest EXCEPT ![IdSet(pattern.txids)] = <<pattern>>]
                          ELSE latest
    /\ nUpserts' = nUpserts + 1
    /\ UNCHANGED <<pipeVars, scoreVars>>

NextStore == StorePattern

SpecStore == InitStore /\ [][NextStore]_vars

----------------------------------------------------------------------------
(* SpecScore: score_cluster applied to bounded arguments *)

ScoreSizes == {2, 3, 5, 8, 12}
ScoreBases == {0, 100, 150, 1000, 5000, 10000, 50000, 100000}
ScoreDeltas == {0, 1, 10, 100}
ScoreSpans == {0, 7199, 21599, 21600, 86399, 86400, 259199, 259200, 604799, 604800}
ScoreShieldGaps == {0, 1, 10, 100, 1000, 10000}

\* n transactions of amount base, the first of amount base + delta, the
\* last one span seconds after the others
MkCluster(n, base, delta, span) ==
    [i \in 1..n |-> [txid        |-> i,
                     block_time  |-> IF i = n THEN span ELSE 0,
                     amount_zat  |-> IF i = 1 THEN base + delta ELSE base]]

ScoreShields(cluster) ==
    {<<>>} \cup
    { <<[txid |-> "s1", block_time |-> 0 - 864000, amount_zat |-> a]>> :
        a \in {0} \cup { SumSeq(Amounts(cluster)) + g : g \in ScoreShieldGaps } }

InitScore ==
    /\ IdlePipeline
    /\ IdleStore
    /\ scorePc = "in"
    /\ \E n \in ScoreSizes, base \in ScoreBases, delta \in ScoreDeltas, span \in ScoreSpans :
         LET c == MkCluster(n, base, delta, span)
         IN  \E ms \in ScoreShields(c) : scoreIn = [cluster |-> c, matching_shield |-> ms]
    /\ scoreOut = <<>>

ScoreCluster ==
    /\ scorePc = "in"
    /\ scoreOut' = <<score_cluster(scoreIn.cluster, scoreIn.matching_shield)>>
    /\ scorePc' = "out"
    /\ UNCHANGED <<scoreIn, store, pipeVars, storeVars>>

NextScore == ScoreCluster

SpecScore == InitScore /\ [][NextScore]_vars

----------------------------------------------------------------------------
(* The claims *)

TxidsOf(cluster) == [i \in 1..Len(cluster.txs) |-> cluster.txs[i].txid]

RowsOfSet(X) == { k \in 1..Len(store) : IdSet(store[k].deshield_txids) = X }

\* C1: after any sequence of store_pattern upserts the store holds exactly one
\* record for each set of transaction ids that was committed, whatever the
\* order of the ids in each upserted pattern, and none for any other set; the
\* record carries the score, warning level and metadata of the latest upsert
\* committed for that set.
C1_OneRecordPerIdSet ==
    \A X \in DOMAIN latest :
        IF latest[X] = <<>>
        THEN RowsOfSet(X) = {}
        ELSE /\ Cardinality(RowsOfSet(X)) = 1
             /\ \A k \in RowsOfSet(X) :
                  /\ store[k].score = latest[X][1].score
                  /\ store[k].warning_level = latest[X][1].warning_level
                  /\ store[k].metadata = latest[X][1]

\* a set was upserted twice, with its ids in another order and another match
C1_Witness ==
    /\ nUpserts >= 2
    /\ \E k \in 1..Len(store) :
         /\ store[k].deshield_txids # store[k].metadata.txids
         /\ store[k].shield_txids # store[k].metadata.shield_txids

FailedWrite(r) ==
    /\ Len(attempts'[r]) = Len(attempts[r]) + 1
    /\ ~attempts'[r][Len(attempts'[r])].ok

\* every cluster of the run has been passed, and every one that was assembled
\* (score >= 35) was handed to the store
AllWritten(r) ==
    /\ Len(scores[r]) = Len(clusters[r])
    /\ \A i \in 1..Len(clusters[r]) :
         scores[r][i] >= 35 =>
            \E j \in 1..Len(attempts[r]) : attempts[r][j].pattern.txids = TxidsOf(clusters[r][i])

\* C2: in a run with dry_run false, a store write that fails leaves the store
\* as it was before that write and the run in its loop, at the next cluster,
\* with a usable connection; and a run that returns has passed every cluster
\* and handed every assembled pattern to the store, failed writes or not.
C2_FailedWriteIsLocal ==
    [][\A r \in Runs :
          /\ FailedWrite(r) =>
                /\ store' = store
                /\ pc'[r] = "loop"
                /\ conn'[r] = "ok"
                /\ idx'[r] = idx[r] + 1
          /\ (pc'[r] = "done" /\ clustered'[r] /\ ~cfg.dry_run) => AllWritten(r)']_vars

\* a run returned after a failed write that a committed write followed
C2_Witness ==
    \E r \in Runs :
        /\ pc[r] = "done"
        /\ \E i, j \in 1..Len(attempts[r]) :
             i < j /\ ~attempts[r][i].ok /\ attempts[r][j].ok
        /\ Len(store) = 1

BreakdownSum(b) ==
    b.cluster_size + b.uniformity + b.round_number + b.time_clustering + b.matching_shield

\* C3: score_cluster returns the sum of the five factor points capped at 100,
\* so 0 <= score <= 100, and the warning level is HIGH iff score >= 70,
\* MEDIUM iff 50 <= score <= 69, LOW iff score <= 49.
C3_ScoreBounds ==
    scorePc = "out" =>
        LET res == scoreOut[1]
        IN  /\ res.score >= 0
            /\ res.score <= 100
            /\ res.score = Min2(BreakdownSum(res.breakdown), 100)
            /\ (res.warning_level = "HIGH") <=> (res.score >= 70)
            /\ (res.warning_level = "MEDIUM") <=> (res.score >= 50 /\ res.score <= 69)
            /\ (res.warning_level = "LOW") <=> (res.score <= 49)

\* the five factors sum to more than 100 and the score is the cap
C3_Witness ==
    /\ scorePc = "out"
    /\ BreakdownSum(scoreOut[1].breakdown) > 100
    /\ scoreOut[1].score = 100
    /\ scoreOut[1].warning_level = "HIGH"

AttemptPatterns(r) == [i \in 1..Len(attempts[r]) |-> attempts[r][i].pattern]

AllReturned == \A r \in Runs : pc[r] \in {"done", "aborted"}

UniqueHashes(st) ==
    \A j, k \in 1..Len(st) : st[j].pattern_hash = st[k].pattern_hash => j = k

Contents(st) ==
    { [pattern_hash  |-> st[k].pattern_hash,
       score         |-> st[k].score,
       warning_level |-> st[k].warning_level,
       metadata      |-> st[k].metadata] : k \in 1..Len(st) }

\* the store after the committed writes of atts, made in their order
RECURSIVE Replay(_, _)
Replay(st, atts) ==
    IF atts = <<>> THEN st
    ELSE Replay(IF Head(atts).ok
                THEN Upsert(st, PatternRow(Head(atts).pattern, Len(st)), Len(st))
                ELSE st,
                Tail(atts))

\* the patterns some run committed
Committed ==
    { a.pattern : a \in { x \in UNION { { attempts[r][j] : j \in 1..Len(attempts[r]) } : r \in Runs } :
                            x.ok } }

\* C5 as stated: whatever the interleaving of the upserts of two overlapping
\* runs, the store ends with one record per hash and the contents the same
\* runs leave in any other interleaving (here: one run after the other).
C5_InterleavingIndependent ==
    AllReturned =>
        /\ UniqueHashes(store)
        /\ Contents(store) = Contents(Replay(Replay(<<>>, attempts[1]), attempts[2]))
        /\ Contents(store) = Contents(Replay(Replay(<<>>, attempts[2]), attempts[1]))

\* C5 amended: the store ends with exactly one record per pattern hash that
\* was committed, and its score, warning level and metadata are those of one
\* of the committed upserts for that hash; the contents are the same for
\* every interleaving when the runs committed the same pattern for each hash.
C5_OneRecordLastWriter ==
    AllReturned =>
        /\ UniqueHashes(store)
        /\ \A k \in 1..Len(store) :
             \E p \in Committed :
                /\ generate_pattern_hash(p.txids) = store[k].pattern_hash
                /\ store[k].score = p.score
                /\ store[k].warning_level = p.warning_level
                /\ store[k].metadata = p
        /\ \A p \in Committed :
             \E k \in 1..Len(store) : store[k].pattern_hash = generate_pattern_hash(p.txids)
        /\ (\A p, q \in Committed : p.txids = q.txids => p = q) =>
             /\ Contents(store) = Contents(Replay(Replay(<<>>, attempts[1]), attempts[2]))
             /\ Contents(store) = Contents(Replay(Replay(<<>>, attempts[2]), attempts[1]))

\* both runs committed the same transaction set, with different matches
C5_Witness ==
    /\ AllReturned
    /\ \E i \in 1..Len(attempts[1]), j \in 1..Len(attempts[2]) :
         /\ attempts[1][i].ok
         /\ attempts[2][j].ok
         /\ attempts[1][i].pattern.txids = attempts[2][j].pattern.txids
         /\ attempts[1][i].pattern.score # attempts[2][j].pattern.score

\* 12 transactions of exactly 500 ZEC within 2 hours, no funding match
ScenarioA ==
    /\ scorePc = "out"
    /\ Len(scoreIn.cluster) = 12
    /\ \A i \in 1..12 : scoreIn.cluster[i].amount_zat = 50000
    /\ MaxSeq(Times(scoreIn.cluster)) - MinSeq(Times(scoreIn.cluster)) < 7200
    /\ scoreIn.matching_shield = <<>>

\* C6 as stated: Scenario A scores size 30, uniformity 15, round number 20,
\* time 12, match 0: 77, HIGH.
C6_ScenarioA77 ==
    ScenarioA =>
        /\ scoreOut[1].breakdown.round_number = 20
        /\ scoreOut[1].score = 77
        /\ scoreOut[1].warning_level = "HIGH"

\* C6 amended: Scenario A scores size 30, uniformity 15, round number 18 (500
\* ZEC is below the 1000 tier and meets the 500 tier), time 12, match 0: 75, HIGH.
C6_ScenarioA75 ==
    ScenarioA =>
        /\ scoreOut[1].breakdown.cluster_size = 30
        /\ scoreOut[1].breakdown.uniformity = 15
        /\ scoreOut[1].breakdown.round_number = 18
        /\ scoreOut[1].breakdown.time_clustering = 12
        /\ scoreOut[1].breakdown.matching_shield = 0
        /\ scoreOut[1].score = 75
        /\ scoreOut[1].warning_level = "HIGH"

C6_Witness == ScenarioA /\ scoreOut[1].score = 75

AmountOfTxid(id) == flows[id].amount_zat

\* C7: a record with a non-positive amount that the source returned is a
\* member of no cluster, of no collected or returned pattern and of no
\* stored pattern.
C7_NonPositiveExcluded ==
    /\ \A r \in Runs : \A i \in 1..Len(clusters[r]) : \A j \in 1..Len(clusters[r][i].txs) :
         clusters[r][i].txs[j].amount_zat > 0
    /\ \A r \in Runs : \A i \in 1..Len(patterns[r]) : \A j \in 1..Len(patterns[r][i].txids) :
         AmountOfTxid(patterns[r][i].txids[j]) > 0
    /\ \A k \in 1..Len(store) : \A j \in 1..Len(store[k].deshield_txids) :
         AmountOfTxid(store[k].deshield_txids[j]) > 0

\* C8: any two transactions of one cluster have transformed amounts
\* log10(amount + 1) that differ by at most eps.
C8_ClusterWithinEps ==
    \A r \in Runs : \A i \in 1..Len(clusters[r]) :
        \A j, k \in 1..Len(clusters[r][i].txs) :
            WithinEps(clusters[r][i].txs[j].amount_zat, clusters[r][i].txs[k].amount_zat)

\* C9: a returned pattern comes from a cluster iff the cluster has at least
\* min_cluster_size members and scored at least 35; every returned pattern has
\* score >= 35 and batch_count = len(txids) >= min_cluster_size; a run with
\* fewer candidates than min_cluster_size returns no pattern and neither
\* clusters, queries for shields nor writes.
C9_ReturnedIffQualifying ==
    \A r \in Runs :
        pc[r] = "done" =>
            IF Len(deshields[r]) < cfg.min_cluster_size
            THEN /\ patterns[r] = <<>>
                 /\ ~clustered[r]
                 /\ queries[r] = 0
                 /\ attempts[r] = <<>>
            ELSE /\ Len(scores[r]) = Len(clusters[r])
                 /\ \A i \in 1..Len(clusters[r]) :
                      (\E k \in 1..Len(patterns[r]) : patterns[r][k].txids = TxidsOf(clusters[r][i]))
                      <=> (/\ Len(clusters[r][i].txs) >= cfg.min_cluster_size
                           /\ scores[r][i] >= 35)
                 /\ \A k \in 1..Len(patterns[r]) :
                      /\ patterns[r][k].score >= 35
                      /\ patterns[r][k].batch_count = Len(patterns[r][k].txids)
                      /\ patterns[r][k].batch_count >= cfg.min_cluster_size
                      /\ \E i \in 1..Len(clusters[r]) :
                           /\ patterns[r][k].txids = TxidsOf(clusters[r][i])
                           /\ patterns[r][k].score = scores[r][i]

\* a run returned one cluster's pattern and discarded another cluster as too weak
C9_Witness ==
    \E r \in Runs :
        /\ pc[r] = "done"
        /\ Len(patterns[r]) = 1
        /\ \E i \in 1..Len(scores[r]) : scores[r][i] >= 0 /\ scores[r][i] < 35

ClusterIndex(r, p) == CHOOSE i \in 1..Len(clusters[r]) : TxidsOf(clusters[r][i]) = p.txids

\* C10: the returned list is sorted by non-increasing score, and two returned
\* patterns of equal score are in the iteration order of the cluster mapping.
C10_SortedStable ==
    \A r \in Runs :
        pc[r] = "done" =>
            \A i, j \in 1..Len(patterns[r]) :
                i < j =>
                    /\ patterns[r][i].score >= patterns[r][j].score
                    /\ patterns[r][i].score = patterns[r][j].score =>
                         ClusterIndex(r, patterns[r][i]) < ClusterIndex(r, patterns[r][j])

\* a run returned two patterns of equal score
C10_Witness ==
    \E r \in Runs :
        /\ pc[r] = "done"
        /\ Len(patterns[r]) = 2
        /\ patterns[r][1].score = patterns[r][2].score

\* the columns the ON CONFLICT clause does not assign
SameInsertColumns(old, new) ==
    /\ new.pattern_type = old.pattern_type
    /\ new.pattern_hash = old.pattern_hash
    /\ new.shield_txids = old.shield_txids
    /\ new.deshield_txids = old.deshield_txids
    /\ new.total_amount_zat = old.total_amount_zat
    /\ new.per_tx_amount_zat = old.per_tx_amount_zat
    /\ new.batch_count = old.batch_count
    /\ new.first_tx_time = old.first_tx_time
    /\ new.last_tx_time = old.last_tx_time
    /\ new.time_span_secs = old.time_span_secs

\* C11: an upsert whose pattern hash is already stored changes only the score,
\* warning level, metadata, update time and expiry of that record: its funding
\* ids (shield_txids), transaction ids, total and per-transaction amounts,
\* batch count, first/last times and time span stay those of the first insert,
\* whose funding ids were the ones of its own metadata; the metadata of an
\* updated record is the new pattern, funding match included.
C11_ConflictKeepsInsertColumns ==
    [][ /\ Len(store') >= Len(store)
        /\ \A k \in 1..Len(store) :
             /\ SameInsertColumns(store[k], store'[k])
             /\ store'[k] # store[k] =>
                  \E pattern \in StorePatterns :
                      /\ generate_pattern_hash(pattern.txids) = store[k].pattern_hash
                      /\ store'[k].score = pattern.score
                      /\ store'[k].warning_level = pattern.warning_level
                      /\ store'[k].metadata = pattern
                      /\ store'[k].updated_at = <<nUpserts'>>
                      /\ store'[k].expires_at = nUpserts' + ExpirySecs
        /\ \A k \in (Len(store) + 1)..Len(store') :
             /\ store'[k].shield_txids = store'[k].metadata.shield_txids
             /\ store'[k].deshield_txids = store'[k].metadata.txids
             /\ store'[k].updated_at = <<>> ]_vars

\* a record inserted with no funding match was updated by a pattern of the
\* same transaction set that has one: the column is still empty, the metadata
\* names the match
C11_Witness ==
    \E k \in 1..Len(store) :
        /\ store[k].updated_at # <<>>
        /\ store[k].shield_txids = <<>>
        /\ store[k].metadata.shield_txids = <<"s1">>
        /\ store[k].metadata.matching_shield # <<>>

====
